---- MODULE Spec2Model ----
(***************************************************************************)
(* Model of src/io/mod.rs: the IoContext that caches the blocking mode of  *)
(* an io object and the two checks every io call site runs before its      *)
(* syscall (check_nonblocking, check_context), with set_nonblocking.       *)
(*                                                                         *)
(* Polarity of the source: blocked_io = TRUE records that the io object is *)
(* in OS nonblocking mode (the spec's cached_mode = OsNonblocking), and    *)
(* blocked_io = FALSE that it is in OS blocking mode (OsBlocking).  The    *)
(* field nonblocking is the spec's raw_override.                           *)
(*                                                                         *)
(* Every atomic load, every call of the closure f and every atomic store   *)
(* is one step of the calling process, so that calls made through clones   *)
(* sharing the IoContext interleave at the granularity of the code.        *)
(*                                                                         *)
(* The module also models OptionCell, the option type with deref and take  *)
(* that the io wrappers keep their inner io object in.                     *)
(***************************************************************************)
EXTENDS Integers, Sequences, FiniteSets, TLC

\* number of callers (clones of the io object, each used by one thread or coroutine)
NumProcs == 2

Procs == 1..NumProcs

\* number of distinct values an OptionCell is created with
MaxVal == 2

\* number of deref and take calls made on one OptionCell
MaxCellOps == 5

Values == 1..MaxVal

VARIABLES
    nonblocking,    \* IoContext.nonblocking (raw override)
    blocked_io,     \* IoContext.blocked_io  (TRUE: cached mode is OS nonblocking)
    fd_nonblocking, \* the actual OS mode of the inner io object, set by the closure f
    pc,             \* pc[p]: source line the call of p is at, "idle" or "ret"
    op,             \* op[p]: the method p is running
    in_coroutine,   \* in_coroutine[p]: what is_coroutine() answers for the call of p
    f_calls,        \* f_calls[p]: arguments f was invoked with during the call of p
    f_ok,           \* f_ok[p]: outcomes (TRUE = Ok) of those invocations
    result,         \* result[p]: the io::Result<bool> the call returned
    pre,            \* pre[p]: the IoContext as it was when the call of p began
    fresh,          \* no method call on the IoContext has completed since new()
    prevCtx,        \* <<c>>: the previous call was a successful check_context with is_coroutine() = c
    runToggles,     \* successful f calls in the current run of same-context check_context calls
    failedArg,      \* <<b>>: f(b) failed and no call requiring mode b has completed since
    batch,          \* the calls begun since no call was last in progress
    seen,           \* <<o>>: one earlier check_context call, kept to compare later calls with
    cell,           \* OptionCell.0: <<>> is None, <<d>> is Some(d)
    data,           \* the value OptionCell::new was called with
    cell_log        \* the deref and take calls made on the cell, with their outcomes

\* the IoContext, the io object and the calls in progress
prog == <<nonblocking, blocked_io, fd_nonblocking, pc, op, in_coroutine,
          f_calls, f_ok, result>>

\* the record of past calls kept for sequences of non-overlapping calls
hist == <<pre, fresh, prevCtx, runToggles, failedArg>>

\* the OptionCell and what was done with it
cellvars == <<cell, data, cell_log>>

vars == <<prog, hist, batch, seen, cellvars>>

Methods == {"check_nonblocking", "check_context"}

Results == {"none", "Ok(true)", "Ok(false)", "Err"}

\* slip: a new context whose cache records OS blocking
new_blocking == [nonblocking |-> FALSE, blocked_io |-> FALSE]

\* IoContext::new(): the two fields of a new context
new == [nonblocking |-> FALSE, blocked_io |-> TRUE]

\* no call is between its entry and the point where its caller has consumed the result
Quiet == \A p \in Procs : pc[p] = "idle"

\* the mode (TRUE = OS nonblocking) a call requires, <<>> when it requires none
Required(o, c, nb) ==
    IF o = "check_context" THEN <<c>>
    ELSE IF nb THEN <<TRUE>> ELSE <<>>

\* lines 115-117: OptionCell::new(data)
OptionCell_new(d) == <<d>>

\* no call has begun since the IoContext was last quiet
NoBatch == [ok |-> FALSE, ctx |-> <<>>, called |-> {}, toggles |-> 0,
            args |-> {}, rets |-> {}]

\* the IoContext after new(), no call in progress and nothing recorded
ContextInit ==
    /\ nonblocking = new.nonblocking
    /\ blocked_io = new.blocked_io
    /\ fd_nonblocking = TRUE
    /\ pc = [p \in Procs |-> "idle"]
    /\ op = [p \in Procs |-> "check_context"]
    /\ in_coroutine = [p \in Procs |-> FALSE]
    /\ f_calls = [p \in Procs |-> <<>>]
    /\ f_ok = [p \in Procs |-> <<>>]
    /\ result = [p \in Procs |-> "none"]
    /\ pre = [p \in Procs |-> new]
    /\ fresh = TRUE
    /\ prevCtx = <<>>
    /\ runToggles = 0
    /\ failedArg = <<>>
    /\ batch = NoBatch
    /\ seen = <<>>

\* the IoContext after new(), beside an OptionCell after new(1)
Init ==
    /\ ContextInit
    /\ data = 1
    /\ cell = OptionCell_new(data)
    /\ cell_log = <<>>

\* slip: the store after f is lost and blocked_io keeps its old value
StoreValue_stale(b) == blocked_io

\* the value a completed store leaves in blocked_io
StoreValue(b) == b

\* the call returns r: `return Ok(..)`, or `?` on a failed f
Return(p, r) ==
    /\ pc' = [pc EXCEPT ![p] = "ret"]
    /\ result' = [result EXCEPT ![p] = r]

\* slip: a failed f is called again instead of being returned
CallF_retry(p, b, ok, next) ==
    /\ f_calls' = [f_calls EXCEPT ![p] = IF Len(@) < 2 THEN Append(@, b) ELSE @]
    /\ f_ok' = [f_ok EXCEPT ![p] = IF Len(@) < 2 THEN Append(@, ok) ELSE @]
    /\ IF ok
       THEN /\ fd_nonblocking' = b
            /\ pc' = [pc EXCEPT ![p] = next]
       ELSE UNCHANGED <<fd_nonblocking, pc>>
    /\ UNCHANGED <<result, nonblocking, blocked_io, op, in_coroutine>>

\* slip: blocked_io is stored before the outcome of f is looked at
CallF_eager(p, b, ok, next) ==
    /\ f_calls' = [f_calls EXCEPT ![p] = Append(@, b)]
    /\ f_ok' = [f_ok EXCEPT ![p] = Append(@, ok)]
    /\ IF ok
       THEN /\ fd_nonblocking' = b
            /\ pc' = [pc EXCEPT ![p] = next]
            /\ UNCHANGED <<result, blocked_io>>
       ELSE /\ pc' = [pc EXCEPT ![p] = "ret"]
            /\ result' = [result EXCEPT ![p] = "Err"]
            /\ blocked_io' = b
            /\ UNCHANGED fd_nonblocking
    /\ UNCHANGED <<nonblocking, op, in_coroutine>>

\* f(b): the closure sets the actual mode of the inner io object, or fails
CallF(p, b, ok, next) ==
    /\ f_calls' = [f_calls EXCEPT ![p] = Append(@, b)]
    /\ f_ok' = [f_ok EXCEPT ![p] = Append(@, ok)]
    /\ IF ok
       THEN /\ fd_nonblocking' = b
            /\ pc' = [pc EXCEPT ![p] = next]
            /\ UNCHANGED result
       ELSE /\ Return(p, "Err")
            /\ UNCHANGED fd_nonblocking
    /\ UNCHANGED <<nonblocking, blocked_io, op, in_coroutine>>

\* self.blocked_io.store(b, Relaxed) followed by the return of r
StoreBlockedIo(p, b, r) ==
    /\ blocked_io' = StoreValue(b)
    /\ Return(p, r)
    /\ UNCHANGED <<nonblocking, fd_nonblocking, op, in_coroutine, f_calls, f_ok>>

\* a load that decides between calling f (goto) and returning r at once
LoadBranch(p, callf, goto, r) ==
    /\ IF callf
       THEN pc' = [pc EXCEPT ![p] = goto] /\ UNCHANGED result
       ELSE Return(p, r)
    /\ UNCHANGED <<nonblocking, blocked_io, fd_nonblocking, op, in_coroutine,
                   f_calls, f_ok>>

\* a caller enters check_nonblocking or check_context
Begin(p) ==
    /\ pc[p] = "idle"
    /\ \E o \in Methods, c \in BOOLEAN :
        /\ op' = [op EXCEPT ![p] = o]
        /\ in_coroutine' = [in_coroutine EXCEPT ![p] = c]
        /\ pc' = [pc EXCEPT ![p] = IF o = "check_nonblocking" THEN "L48" ELSE "L69"]
    /\ UNCHANGED <<nonblocking, blocked_io, fd_nonblocking, f_calls, f_ok, result>>

(* check_nonblocking *)

\* slip: the test of the nonblocking flag is negated
CN_LoadNonblocking_negated(p) ==
    /\ pc[p] = "L48"
    /\ LoadBranch(p, ~nonblocking, "L51", "Ok(false)")

\* line 48: if self.nonblocking.load(Relaxed) { .. } ; line 58: Ok(false)
CN_LoadNonblocking(p) ==
    /\ pc[p] = "L48"
    /\ LoadBranch(p, nonblocking, "L51", "Ok(false)")

\* slip: blocked_io is read with the polarity of the thread branch
CN_LoadBlockedIo_flipped(p) ==
    /\ pc[p] = "L51"
    /\ LoadBranch(p, blocked_io, "L52", "Ok(true)")

\* line 51: if !self.blocked_io.load(Relaxed) { .. } ; line 55: return Ok(true)
CN_LoadBlockedIo(p) ==
    /\ pc[p] = "L51"
    /\ LoadBranch(p, ~blocked_io, "L52", "Ok(true)")

\* line 52: f(true)?
CN_CallF(p) ==
    /\ pc[p] = "L52"
    /\ \E ok \in BOOLEAN : CallF(p, TRUE, ok, "L53")

\* slip: the raw nonblocking branch stores the value of the thread branch
CN_Store_false(p) ==
    /\ pc[p] = "L53"
    /\ StoreBlockedIo(p, FALSE, "Ok(true)")

\* line 53: self.blocked_io.store(true, Relaxed) ; line 55: return Ok(true)
CN_Store(p) ==
    /\ pc[p] = "L53"
    /\ StoreBlockedIo(p, TRUE, "Ok(true)")

(* check_context *)

\* line 69: if !is_coroutine() { .. }
CC_IsCoroutine(p) ==
    /\ pc[p] = "L69"
    /\ pc' = [pc EXCEPT ![p] = IF in_coroutine[p] THEN "L81" ELSE "L72"]
    /\ UNCHANGED <<nonblocking, blocked_io, fd_nonblocking, op, in_coroutine,
                   f_calls, f_ok, result>>

\* slip: the thread branch leaves the io object alone while the override is set
CC_ThreadLoad_override(p) ==
    /\ pc[p] = "L72"
    /\ LoadBranch(p, blocked_io /\ ~nonblocking, "L73", "Ok(false)")

\* slip: the thread branch changes the mode on every call, cached or not
CC_ThreadLoad_always(p) ==
    /\ pc[p] = "L72"
    /\ LoadBranch(p, TRUE, "L73", "Ok(false)")

\* slip: blocked_io is read with the polarity of the coroutine branch
CC_ThreadLoad_flipped(p) ==
    /\ pc[p] = "L72"
    /\ LoadBranch(p, ~blocked_io, "L73", "Ok(false)")

\* line 72: if self.blocked_io.load(Relaxed) { .. } ; line 76: return Ok(false)
CC_ThreadLoad(p) ==
    /\ pc[p] = "L72"
    /\ LoadBranch(p, blocked_io, "L73", "Ok(false)")

\* line 73: f(false)?
CC_ThreadCallF(p) ==
    /\ pc[p] = "L73"
    /\ \E ok \in BOOLEAN : CallF(p, FALSE, ok, "L74")

\* slip: the thread branch stores the value of the coroutine branch
CC_ThreadStore_true(p) ==
    /\ pc[p] = "L74"
    /\ StoreBlockedIo(p, TRUE, "Ok(false)")

\* line 74: self.blocked_io.store(false, Relaxed) ; line 76: return Ok(false)
CC_ThreadStore(p) ==
    /\ pc[p] = "L74"
    /\ StoreBlockedIo(p, FALSE, "Ok(false)")

\* slip: blocked_io is read with the polarity of the thread branch
CC_CoLoad_flipped(p) ==
    /\ pc[p] = "L81"
    /\ LoadBranch(p, blocked_io, "L83", "Ok(true)")

\* line 81: if !self.blocked_io.load(Relaxed) { .. } ; line 86: Ok(true)
CC_CoLoad(p) ==
    /\ pc[p] = "L81"
    /\ LoadBranch(p, ~blocked_io, "L83", "Ok(true)")

\* line 83: f(true)?
CC_CoCallF(p) ==
    /\ pc[p] = "L83"
    /\ \E ok \in BOOLEAN : CallF(p, TRUE, ok, "L84")

\* slip: the coroutine branch stores the value of the thread branch
CC_CoStore_false(p) ==
    /\ pc[p] = "L84"
    /\ StoreBlockedIo(p, FALSE, "Ok(true)")

\* line 84: self.blocked_io.store(true, Relaxed) ; line 86: Ok(true)
CC_CoStore(p) ==
    /\ pc[p] = "L84"
    /\ StoreBlockedIo(p, TRUE, "Ok(true)")

\* the caller has the result and goes on to its syscall; the call is over
Finish(p) ==
    /\ pc[p] = "ret"
    /\ pc' = [pc EXCEPT ![p] = "idle"]
    /\ op' = [op EXCEPT ![p] = "check_context"]
    /\ in_coroutine' = [in_coroutine EXCEPT ![p] = FALSE]
    /\ f_calls' = [f_calls EXCEPT ![p] = <<>>]
    /\ f_ok' = [f_ok EXCEPT ![p] = <<>>]
    /\ result' = [result EXCEPT ![p] = "none"]
    /\ UNCHANGED <<nonblocking, blocked_io, fd_nonblocking>>

\* slip: the flag is stored in both fields of the IoContext
set_nonblocking_both ==
    /\ \E b \in BOOLEAN : nonblocking' = b /\ blocked_io' = b
    /\ UNCHANGED <<fd_nonblocking, pc, op, in_coroutine, f_calls, f_ok, result>>

\* lines 90-92: set_nonblocking(b)
set_nonblocking ==
    /\ \E b \in BOOLEAN : nonblocking' = b
    /\ UNCHANGED <<blocked_io, fd_nonblocking, pc, op, in_coroutine, f_calls,
                   f_ok, result>>

\* one step of a call in progress
Step(p) ==
    \/ CN_LoadNonblocking(p)
    \/ CN_LoadBlockedIo(p)
    \/ CN_CallF(p)
    \/ CN_Store(p)
    \/ CC_IsCoroutine(p)
    \/ CC_ThreadLoad(p)
    \/ CC_ThreadCallF(p)
    \/ CC_ThreadStore(p)
    \/ CC_CoLoad(p)
    \/ CC_CoCallF(p)
    \/ CC_CoStore(p)
    \/ Finish(p)

\* what the interleaved calls leave alone
idle_rest == <<hist, batch, seen, cellvars>>

\* calls through clones sharing the IoContext interleave freely
Next ==
    \/ \E p \in Procs : Begin(p) /\ UNCHANGED idle_rest
    \/ \E p \in Procs : Step(p) /\ UNCHANGED idle_rest
    \/ set_nonblocking /\ UNCHANGED idle_rest

Spec == Init /\ [][Next]_vars

\* a call in progress is never left unscheduled for ever, and f returns
FairSpec == Spec /\ \A p \in Procs : WF_vars(Step(p) /\ UNCHANGED idle_rest)

\* the run counter saturates at 2 (one f call too many)
Min2(n) == IF n < 2 THEN n ELSE 2

\* number of f calls of the call of p that returned Ok
Toggled(p) == Cardinality({i \in 1..Len(f_ok[p]) : f_ok[p][i]})

\* a method is entered only when no other call is in progress
SeqBegin(p) ==
    /\ Quiet
    /\ Begin(p)
    /\ pre' = [pre EXCEPT ![p] = [nonblocking |-> nonblocking,
                                  blocked_io |-> blocked_io]]
    /\ UNCHANGED <<fresh, prevCtx, runToggles, failedArg>>

\* a step of the one call in progress; its completion enters the record of past calls
SeqStep(p) ==
    /\ Step(p)
    /\ IF pc[p] = "ret"
       THEN /\ pre' = [pre EXCEPT ![p] = new]
            /\ fresh' = FALSE
            /\ prevCtx' = IF op[p] = "check_context" /\ result[p] # "Err"
                          THEN <<in_coroutine[p]>> ELSE <<>>
            /\ runToggles' = IF op[p] = "check_context" /\ result[p] # "Err"
                             THEN IF prevCtx = <<in_coroutine[p]>>
                                  THEN Min2(runToggles + Toggled(p))
                                  ELSE Toggled(p)
                             ELSE 0
            /\ failedArg' = IF result[p] = "Err"
                            THEN <<f_calls[p][Len(f_calls[p])]>>
                            ELSE IF failedArg = Required(op[p], in_coroutine[p],
                                                         pre[p].nonblocking)
                                 THEN <<>> ELSE failedArg
       ELSE UNCHANGED hist

SeqSetNonblocking ==
    /\ Quiet
    /\ set_nonblocking
    /\ fresh' = FALSE
    /\ prevCtx' = <<>>
    /\ runToggles' = 0
    /\ UNCHANGED <<pre, failedArg>>

\* what the non-overlapping calls leave alone
seq_rest == <<batch, seen, cellvars>>

\* calls on the IoContext do not overlap
SeqNext ==
    \/ \E p \in Procs : SeqBegin(p) /\ UNCHANGED seq_rest
    \/ \E p \in Procs : SeqStep(p) /\ UNCHANGED seq_rest
    \/ SeqSetNonblocking /\ UNCHANGED seq_rest

SeqSpec == Init /\ [][SeqNext]_vars

TypeOK ==
    /\ nonblocking \in BOOLEAN
    /\ blocked_io \in BOOLEAN
    /\ fd_nonblocking \in BOOLEAN
    /\ \A p \in Procs : /\ op[p] \in Methods
                        /\ result[p] \in Results
                        /\ Len(f_calls[p]) <= 1
                        /\ Len(f_ok[p]) = Len(f_calls[p])
    /\ runToggles \in 0..2

(***************************************************************************)
(* Properties of non-overlapping calls (SeqSpec).  A call of p that has    *)
(* returned is at pc[p] = "ret": f_calls[p] and f_ok[p] hold what it did,  *)
(* result[p] what it returned, pre[p] the IoContext it started from.       *)
(***************************************************************************)

Returned(p, o) == pc[p] = "ret" /\ op[p] = o

\* every f call of the call of p returned Ok (also when there was none)
AllOk(p) == \A i \in 1..Len(f_ok[p]) : f_ok[p][i]

\* C1: check_context from a plain thread calls f(false) exactly when blocked_io
\* recorded OS nonblocking at the call; when f succeeds or is not needed the
\* cache records OS blocking afterwards and the call returns Ok(false),
\* whatever the value of nonblocking (the raw override).
C1_ThreadContext ==
    \A p \in Procs :
        Returned(p, "check_context") /\ ~in_coroutine[p] =>
            /\ f_calls[p] = IF pre[p].blocked_io THEN <<FALSE>> ELSE <<>>
            /\ AllOk(p) => blocked_io = FALSE /\ result[p] = "Ok(false)"

C1_Witness ==
    \E p \in Procs :
        /\ Returned(p, "check_context") /\ ~in_coroutine[p]
        /\ pre[p].blocked_io /\ nonblocking
        /\ f_calls[p] = <<FALSE>> /\ f_ok[p] = <<TRUE>>
        /\ result[p] = "Ok(false)" /\ ~blocked_io

\* C2: check_context from a coroutine calls f(true) exactly when blocked_io
\* recorded OS blocking at the call; when f succeeds or is not needed the cache
\* records OS nonblocking afterwards and the call returns Ok(true).
C2_CoroutineContext ==
    \A p \in Procs :
        Returned(p, "check_context") /\ in_coroutine[p] =>
            /\ f_calls[p] = IF pre[p].blocked_io THEN <<>> ELSE <<TRUE>>
            /\ AllOk(p) => blocked_io = TRUE /\ result[p] = "Ok(true)"

C2_Witness ==
    \E p \in Procs :
        /\ Returned(p, "check_context") /\ in_coroutine[p]
        /\ ~pre[p].blocked_io
        /\ f_calls[p] = <<TRUE>> /\ f_ok[p] = <<TRUE>>
        /\ result[p] = "Ok(true)" /\ blocked_io

\* C3: check_nonblocking with nonblocking = true, from any cached mode and any
\* execution context: a call that does not fail returns Ok(true) and leaves the
\* cache at OS nonblocking; it calls f(true) exactly when the cache did not
\* record OS nonblocking at the call.
C3_RawOverrideSet ==
    \A p \in Procs :
        Returned(p, "check_nonblocking") /\ pre[p].nonblocking =>
            /\ f_calls[p] = IF pre[p].blocked_io THEN <<>> ELSE <<TRUE>>
            /\ result[p] # "Err" => result[p] = "Ok(true)" /\ blocked_io = TRUE

C3_Witness ==
    \E p \in Procs :
        /\ Returned(p, "check_nonblocking") /\ pre[p].nonblocking
        /\ ~in_coroutine[p] /\ ~pre[p].blocked_io
        /\ f_calls[p] = <<TRUE>> /\ result[p] = "Ok(true)" /\ blocked_io

\* C4: check_nonblocking with nonblocking = false is a no-op: it returns
\* Ok(false), never calls f, and leaves blocked_io and nonblocking as they were.
C4_RawOverrideUnset ==
    \A p \in Procs :
        Returned(p, "check_nonblocking") /\ ~pre[p].nonblocking =>
            /\ result[p] = "Ok(false)"
            /\ f_calls[p] = <<>>
            /\ blocked_io = pre[p].blocked_io
            /\ nonblocking = pre[p].nonblocking

C4_Witness ==
    \E p \in Procs :
        /\ Returned(p, "check_nonblocking") /\ ~pre[p].nonblocking
        /\ ~blocked_io /\ result[p] = "Ok(false)"

\* the mode the returned call of p required
RequiredBy(p) == Required(op[p], in_coroutine[p], pre[p].nonblocking)

\* C5: when f fails the call returns the failure and blocked_io and nonblocking
\* are as before the call; and the next call that requires the mode of the
\* failed f call invokes f again with the same argument.
C5_FailedToggle ==
    \A p \in Procs :
        pc[p] = "ret" =>
            /\ result[p] = "Err" <=> ~AllOk(p)
            /\ result[p] = "Err" =>
                    /\ blocked_io = pre[p].blocked_io
                    /\ nonblocking = pre[p].nonblocking
            /\ failedArg # <<>> /\ RequiredBy(p) = failedArg =>
                    f_calls[p] = failedArg

C5_Witness ==
    \E p \in Procs :
        /\ pc[p] = "ret"
        /\ failedArg = <<FALSE>> /\ RequiredBy(p) = <<FALSE>>
        /\ f_calls[p] = <<FALSE>> /\ result[p] = "Err"
        /\ blocked_io

\* C6: in a run of non-overlapping check_context calls that all come from the
\* same execution context and whose f calls succeed, f is invoked at most once
\* in total: by the first call that requires a change of mode and by no later
\* call of the run.
C6_IdempotentConvergence ==
    /\ runToggles <= 1
    /\ \A p \in Procs :
          /\ Returned(p, "check_context")
          /\ prevCtx = <<in_coroutine[p]>>
          => f_calls[p] = <<>>

C6_Witness ==
    \E p \in Procs :
        /\ Returned(p, "check_context") /\ ~in_coroutine[p]
        /\ prevCtx = <<FALSE>> /\ runToggles = 1
        /\ f_calls[p] = <<>> /\ result[p] = "Ok(false)"

\* C7: in a sequence of successful non-overlapping check_context calls, a call
\* whose execution context differs from that of the previous call invokes f
\* exactly once, and after every call the cache records the mode the context
\* of that call requires (OS blocking for a thread, OS nonblocking for a
\* coroutine).
C7_Alternation ==
    \A p \in Procs :
        Returned(p, "check_context") /\ result[p] # "Err" =>
            /\ prevCtx = <<~in_coroutine[p]>> =>
                    f_calls[p] = <<in_coroutine[p]>> /\ f_ok[p] = <<TRUE>>
            /\ blocked_io = in_coroutine[p]

C7_Witness ==
    \E p \in Procs :
        /\ Returned(p, "check_context") /\ in_coroutine[p]
        /\ prevCtx = <<FALSE>>
        /\ f_calls[p] = <<TRUE>> /\ result[p] = "Ok(true)" /\ blocked_io

\* C10: a new IoContext has nonblocking = false and blocked_io recording OS
\* nonblocking, and creating it calls no f; on it check_nonblocking returns
\* Ok(false) without an f call, a first check_context from a coroutine returns
\* Ok(true) without an f call, and a first check_context from a thread calls
\* f(false) and, f succeeding, returns Ok(false).
C10_FreshContext ==
    /\ fresh /\ Quiet =>
          /\ ~nonblocking /\ blocked_io /\ fd_nonblocking
          /\ \A p \in Procs : f_calls[p] = <<>>
    /\ \A p \in Procs :
          fresh /\ pc[p] = "ret" =>
              /\ op[p] = "check_nonblocking" =>
                      result[p] = "Ok(false)" /\ f_calls[p] = <<>>
              /\ op[p] = "check_context" /\ in_coroutine[p] =>
                      result[p] = "Ok(true)" /\ f_calls[p] = <<>>
              /\ op[p] = "check_context" /\ ~in_coroutine[p] =>
                      /\ f_calls[p] = <<FALSE>>
                      /\ AllOk(p) => result[p] = "Ok(false)"

C10_Witness ==
    \E p \in Procs :
        /\ fresh /\ Returned(p, "check_context") /\ ~in_coroutine[p]
        /\ f_calls[p] = <<FALSE>> /\ result[p] = "Ok(false)"

(***************************************************************************)
(* Properties of calls that interleave (Spec).                             *)
(***************************************************************************)

\* C8: whenever check_nonblocking or check_context returns successfully, also
\* with calls through other clones interleaved, the io object is at that
\* moment in the mode the caller requires: OS nonblocking when the call
\* returns Ok(true), OS blocking when check_context returns Ok(false).
C8_ModeAtReturn ==
    [][\A p \in Procs :
          pc[p] # "ret" /\ pc'[p] = "ret" =>
              /\ result'[p] = "Ok(true)" => fd_nonblocking'
              /\ result'[p] = "Ok(false)" /\ op[p] = "check_context"
                     => ~fd_nonblocking']_vars

\* C9: no call skips f, because the blocked_io it loaded already records the
\* mode it requires, while the io object is in the other mode.
C9_NoIncorrectOmission ==
    [][\A p \in Procs :
          pc[p] \in {"L51", "L72", "L81"} /\ pc'[p] = "ret" =>
              fd_nonblocking = (pc[p] # "L72")]_vars

(***************************************************************************)
(* The override setter (SeqSpec).                                          *)
(***************************************************************************)

\* C11: set_nonblocking changes only the field nonblocking: a step that
\* changes it calls no f, starts and advances no call, and leaves blocked_io
\* and the mode of the io object alone; the value it stored decides the branch
\* the next check_nonblocking takes at line 48; and no step of check_nonblocking
\* or check_context changes nonblocking.
C11_OverrideSetter ==
    [][/\ nonblocking' # nonblocking =>
              /\ Quiet
              /\ UNCHANGED <<blocked_io, fd_nonblocking, pc, f_calls, f_ok, result>>
       /\ \A p \in Procs :
              /\ pc[p] = "L48" =>
                     pc'[p] = IF nonblocking THEN "L51" ELSE "ret"
              /\ pc'[p] # pc[p] => nonblocking' = nonblocking]_vars

C11_Witness ==
    \E p \in Procs :
        /\ pc[p] = "L51" /\ op[p] = "check_nonblocking"
        /\ nonblocking /\ ~pre[p].blocked_io

(***************************************************************************)
(* OptionCell (lines 100-126).  A panic is the outcome <<>> of a call; the *)
(* cell outlives it (deref takes &self, take has already run Option::take  *)
(* when it panics), so calls after a panic are part of the model.          *)
(***************************************************************************)

\* slip: an empty cell hands out the value it once held instead of panicking
DerefOutcome_lenient(c) == IF c = <<>> THEN <<data>> ELSE c

\* lines 106-110: match self.0.as_ref() { Some(d) => d, None => panic!(..) }
DerefOutcome(c) == c

\* slip: the value is copied out and the cell keeps it
OptionTake_keep(c) == c

\* line 120: Option::take leaves None in the cell
OptionTake(c) == <<>>

\* lines 105-111: deref(&self)
OptionCell_deref ==
    /\ Len(cell_log) < MaxCellOps
    /\ cell_log' = Append(cell_log, [op |-> "deref", out |-> DerefOutcome(cell)])
    /\ UNCHANGED <<cell, data>>

\* lines 119-125: take(&mut self)
OptionCell_take ==
    /\ Len(cell_log) < MaxCellOps
    /\ cell_log' = Append(cell_log, [op |-> "take", out |-> cell])
    /\ cell' = OptionTake(cell)
    /\ UNCHANGED data

\* the IoContext after new(), beside an OptionCell after new(d)
CellInit ==
    /\ ContextInit
    /\ data \in Values
    /\ cell = OptionCell_new(data)
    /\ cell_log = <<>>

CellNext ==
    \/ OptionCell_deref /\ UNCHANGED <<prog, hist, batch, seen>>
    \/ OptionCell_take /\ UNCHANGED <<prog, hist, batch, seen>>

CellSpec == CellInit /\ [][CellNext]_vars

\* positions of the take calls in the log
Takes == {i \in 1..Len(cell_log) : cell_log[i].op = "take"}

\* the call at position i comes before every take
BeforeTakes(i) == \A k \in Takes : i < k

\* the call at position i is the first take
FirstTake(i) == i \in Takes /\ \A k \in Takes : i <= k

\* C12: after OptionCell::new(x) every deref before the first take returns x
\* and leaves the cell holding x; the first take returns x and leaves the cell
\* empty; every later take or deref panics.
C12_CellLifecycle ==
    /\ \A i \in 1..Len(cell_log) :
          cell_log[i].out = IF BeforeTakes(i) \/ FirstTake(i)
                            THEN <<data>> ELSE <<>>
    /\ cell = IF Takes = {} THEN <<data>> ELSE <<>>

C12_Witness ==
    /\ Len(cell_log) = 5
    /\ cell_log[1] = [op |-> "deref", out |-> <<data>>]
    /\ cell_log[2] = [op |-> "deref", out |-> <<data>>]
    /\ cell_log[3] = [op |-> "take", out |-> <<data>>]
    /\ cell_log[4] = [op |-> "take", out |-> <<>>]
    /\ cell_log[5] = [op |-> "deref", out |-> <<>>]
    /\ cell = <<>>

\* C13: an empty cell stays empty: every deref and every take on it panics and
\* leaves it empty, no call refills it, and so take hands the value out at most
\* once.
C13_EmptyAbsorbing ==
    /\ [][cell = <<>> =>
             /\ cell' = <<>>
             /\ cell_log' # cell_log => cell_log'[Len(cell_log')].out = <<>>]_vars
    /\ [](Cardinality({i \in Takes : cell_log[i].out # <<>>}) <= 1)

C13_Witness ==
    /\ cell = <<>>
    /\ Len(cell_log) = 3
    /\ cell_log[1].op = "take" /\ cell_log[1].out = <<data>>
    /\ cell_log[2] = [op |-> "deref", out |-> <<>>]
    /\ cell_log[3] = [op |-> "take", out |-> <<>>]

(***************************************************************************)
(* Mode changes of non-overlapping calls (SeqSpec).                        *)
(***************************************************************************)

\* the call of p invokes f in this step
CallsF(p) == Len(f_calls'[p]) > Len(f_calls[p])

\* the call of p is between a successful f and its store
AtStore(p) == pc[p] \in {"L53", "L74", "L84"}

\* C14: in a sequence of non-overlapping set_nonblocking, check_nonblocking and
\* check_context calls f is never invoked with the mode the cache already
\* records (f(true) only when blocked_io records OS blocking, f(false) only
\* when it records OS nonblocking); every successful f call is followed by a
\* change of blocked_io and blocked_io changes in no other step, so successful
\* f calls and changes of the cached mode are equal in number.
C14_OneTogglePerTransition ==
    [][\A p \in Procs :
          /\ CallsF(p) => f_calls'[p][Len(f_calls'[p])] # blocked_io
          /\ AtStore(p) /\ pc'[p] # pc[p] =>
                 f_ok[p] = <<TRUE>> /\ blocked_io' # blocked_io
          /\ blocked_io' # blocked_io => \E q \in Procs : AtStore(q)]_vars

C14_Witness ==
    \E p \in Procs :
        /\ pc[p] = "L84" /\ f_calls[p] = <<TRUE>> /\ f_ok[p] = <<TRUE>>
        /\ ~blocked_io /\ prevCtx = <<FALSE>>

(***************************************************************************)
(* Order of f, store and return inside one call, with calls through other  *)
(* clones interleaved (Spec).                                              *)
(***************************************************************************)

\* the call of p returns in this step
Returns(p) == pc[p] # "ret" /\ pc'[p] = "ret"

\* C15: within one check_nonblocking or check_context call blocked_io is
\* written only after the f call of that same call has returned Ok, and the
\* value written is the mode that f call asked for; a call that invoked f
\* returns Ok only with that write done; a call that invoked no f, or whose f
\* failed, does not change blocked_io, and neither does set_nonblocking.
C15_ToggleStoreReturn ==
    [][/\ \A p \in Procs :
            /\ AtStore(p) => f_ok[p] = <<TRUE>>
            /\ pc'[p] # pc[p] /\ blocked_io' # blocked_io =>
                   /\ AtStore(p)
                   /\ blocked_io' = f_calls[p][1]
            /\ Returns(p) /\ result'[p] # "Err" /\ f_calls'[p] # <<>> =>
                   /\ AtStore(p)
                   /\ blocked_io' = f_calls'[p][1]
            /\ Returns(p) /\ result'[p] = "Err" => blocked_io' = blocked_io
       /\ blocked_io' # blocked_io => \E p \in Procs : pc'[p] # pc[p]]_vars

C15_Witness ==
    \E p, q \in Procs :
        /\ pc[p] = "ret" /\ result[p] = "Ok(true)"
        /\ f_calls[p] = <<TRUE>> /\ f_ok[p] = <<TRUE>>
        /\ pc[q] = "L74" /\ blocked_io

(***************************************************************************)
(* Progress of interleaved calls under fair scheduling (FairSpec).         *)
(***************************************************************************)

\* how far into its method a call at position l is
Rank(l) ==
    CASE l = "idle" -> 0
      [] l \in {"L48", "L69"} -> 1
      [] l \in {"L51", "L72", "L81"} -> 2
      [] l \in {"L52", "L73", "L83"} -> 3
      [] l \in {"L53", "L74", "L84"} -> 4
      [] l = "ret" -> 5

InProgress(p) == pc[p] \notin {"idle", "ret"}

\* C16: every check_nonblocking and check_context call invokes f at most once,
\* also when f fails; every step of a call moves it forward through its load,
\* its f call and its store, and a step of it is possible whatever the other
\* callers are doing; under fair scheduling every call that has started
\* returns.
C16_WaitFree ==
    /\ [](\A p \in Procs : Len(f_calls[p]) <= 1)
    /\ [](\A p \in Procs : pc[p] # "idle" => ENABLED (Step(p) /\ UNCHANGED idle_rest))
    /\ [][\A p \in Procs :
             pc'[p] # pc[p] /\ pc[p] # "ret" => Rank(pc'[p]) > Rank(pc[p])]_vars
    /\ \A p \in Procs : InProgress(p) ~> pc[p] = "ret"

C16_Witness ==
    \E p, q \in Procs :
        /\ pc[p] = "ret" /\ result[p] = "Err"
        /\ f_calls[p] = <<FALSE>> /\ f_ok[p] = <<FALSE>>
        /\ pc[q] = "L83"

(***************************************************************************)
(* Agreement of the cache with the io object.                              *)
(***************************************************************************)

\* no call is between its entry and its return
NoneInProgress == \A p \in Procs : ~InProgress(p)

\* the cached mode is the mode the io object is in
CacheAccurate == blocked_io = fd_nonblocking

\* C17: when calls do not overlap, after every set_nonblocking, check_nonblocking
\* and check_context call, successful or failed, blocked_io records the mode
\* the io object is actually in.
C17_SequentialCacheAccuracy == NoneInProgress => CacheAccurate

C17_Witness ==
    \E p \in Procs :
        /\ pc[p] = "ret" /\ op[p] = "check_nonblocking" /\ result[p] = "Err"
        /\ ~blocked_io /\ ~fd_nonblocking /\ nonblocking

\* C18: for every interleaving of check_nonblocking and check_context calls
\* through clones sharing one IoContext, in every state in which no call is in
\* progress blocked_io records the mode the io object is actually in.
C18_QuiescentAgreement == Quiet => CacheAccurate

(***************************************************************************)
(* Batches of interleaved calls (BatchSpec).  A batch is the set of calls  *)
(* begun from a state with no call in progress up to the next such state.  *)
(* batch.ok holds while every caller has begun at most one call of the     *)
(* batch, all of them check_context calls answered the same by             *)
(* is_coroutine(), and every f call has returned Ok.                       *)
(***************************************************************************)

\* a caller enters a method; the call opens a batch, joins it or spoils it
BatchBegin(p) ==
    /\ Begin(p)
    /\ batch' =
         IF op'[p] # "check_context" THEN NoBatch
         ELSE IF Quiet
              THEN [ok |-> TRUE, ctx |-> <<in_coroutine'[p]>>, called |-> {p},
                    toggles |-> 0, args |-> {}, rets |-> {}]
         ELSE IF batch.ok /\ batch.ctx = <<in_coroutine'[p]>> /\ p \notin batch.called
              THEN [batch EXCEPT !.called = @ \cup {p}]
         ELSE NoBatch

\* a step of a call; its f call and its return are entered in the batch
BatchStep(p) ==
    /\ Step(p)
    /\ batch' =
         IF ~batch.ok THEN batch
         ELSE IF CallsF(p)
              THEN IF f_ok'[p][Len(f_ok'[p])]
                   THEN [batch EXCEPT !.toggles = @ + 1,
                                      !.args = @ \cup {f_calls'[p][Len(f_calls'[p])]}]
                   ELSE NoBatch
         ELSE IF Returns(p)
              THEN [batch EXCEPT !.rets = @ \cup {result'[p]}]
         ELSE batch

\* what the batches leave alone
batch_rest == <<hist, seen, cellvars>>

BatchNext ==
    \/ \E p \in Procs : BatchBegin(p) /\ UNCHANGED batch_rest
    \/ \E p \in Procs : BatchStep(p) /\ UNCHANGED batch_rest
    \/ set_nonblocking /\ UNCHANGED <<batch, batch_rest>>

BatchSpec == Init /\ [][BatchNext]_vars

\* C19: when the N interleaved check_context calls of a batch all come from
\* the same execution context and every f call succeeds, all of them return
\* the same value, every f call carries the same argument, at most N f calls
\* are made, and once all have returned both blocked_io and the io object are
\* in the mode that context requires.
C19_SameContextRaces ==
    batch.ok =>
        /\ Cardinality(batch.rets) <= 1
        /\ Cardinality(batch.args) <= 1
        /\ batch.toggles <= Cardinality(batch.called)
        /\ NoneInProgress =>
               /\ blocked_io = batch.ctx[1]
               /\ fd_nonblocking = batch.ctx[1]

(***************************************************************************)
(* Independence of check_context from the override (TwinSpec): one         *)
(* completed check_context call, chosen freely, is kept in seen and every  *)
(* later call is compared with it.                                         *)
(***************************************************************************)

\* what the returned check_context call of p started from, did and left behind
Observed(p) ==
    [nonblocking |-> pre[p].nonblocking, blocked_io |-> pre[p].blocked_io,
     in_coroutine |-> in_coroutine[p], f_calls |-> f_calls[p], f_ok |-> f_ok[p],
     result |-> result[p], after |-> blocked_io]

\* a step of the one call in progress; a completed check_context call may be kept
TwinStep(p) ==
    /\ SeqStep(p)
    /\ IF pc[p] = "ret" /\ op[p] = "check_context" /\ seen = <<>>
       THEN seen' \in {<<>>, <<Observed(p)>>}
       ELSE UNCHANGED seen

TwinNext ==
    \/ \E p \in Procs : SeqBegin(p) /\ UNCHANGED seq_rest
    \/ \E p \in Procs : TwinStep(p) /\ UNCHANGED <<batch, cellvars>>
    \/ SeqSetNonblocking /\ UNCHANGED seq_rest

TwinSpec == Init /\ [][TwinNext]_vars

\* the returned call of p and the call kept in seen started from the same cached
\* mode in the same execution context, with the override set in one only
Twins(p) ==
    /\ Returned(p, "check_context")
    /\ seen # <<>>
    /\ seen[1].blocked_io = pre[p].blocked_io
    /\ seen[1].in_coroutine = in_coroutine[p]
    /\ seen[1].nonblocking # pre[p].nonblocking

\* C20: check_context does not depend on nonblocking: two calls from the same
\* execution context that start from the same cached mode and differ in the
\* override invoke f alike (same argument, or not at all) and, f answering
\* alike, return the same value and leave the same cached mode; in particular
\* a check_context from a thread switches the io object to OS blocking also
\* while the override is set.
C20_OverrideIndependence ==
    \A p \in Procs :
        /\ Twins(p) =>
               /\ f_calls[p] = seen[1].f_calls
               /\ f_ok[p] = seen[1].f_ok =>
                      /\ result[p] = seen[1].result
                      /\ blocked_io = seen[1].after
        /\ Returned(p, "check_context") /\ ~in_coroutine[p]
           /\ pre[p].nonblocking /\ AllOk(p) =>
               ~blocked_io /\ ~fd_nonblocking

C20_Witness ==
    \E p \in Procs :
        /\ Twins(p) /\ ~in_coroutine[p]
        /\ pre[p].nonblocking /\ pre[p].blocked_io
        /\ f_calls[p] = <<FALSE>> /\ f_ok[p] = <<TRUE>>
        /\ seen[1].f_ok = <<TRUE>>
        /\ ~blocked_io /\ ~fd_nonblocking

====
